---- MODULE Spec2Model ----
(***************************************************************************)
(* A model of scripts/update.py: the discovery of this week's discussion   *)
(* guide (three stages), the date extraction it rests on, the HTML and PDF *)
(* content parsers and the orchestration in main().                        *)
(*                                                                         *)
(* Text is modelled at the level the regular expressions of the source     *)
(* read it: a date-bearing text is a sequence of date tokens (one token    *)
(* per match of MONTH_NAME_PAT or NUMERIC_DATE_PAT), a line of a guide is  *)
(* a sequence of characters and words.                                     *)
(***************************************************************************)
EXTENDS Integers, Sequences, FiniteSets, TLC

VARIABLES
    pc,         \* main(): the call about to be made, "done" or "crashed"
    today,      \* main(): today
    override,   \* main(): whether --override names the URL
    fetched,    \* every requests.get so far: [by, url], in order
    soup,       \* the anchors of the page the last discovery stage parsed
    series_url, \* main(): series_url
    msg_page,   \* find_today_discussion_pdf_or_page: msg_page
    source_url, \* main(): source_url (None until known)
    stage,      \* the discovery stage that returned the link (0: none yet)
    err,        \* the uncaught exception that ended main(), [type, at]
    html,       \* main(): the guide page r.text holds, [els, links]
    pdf_url,    \* the URL parse_pdf_guide is called with
    pdf_text,   \* the text fetch_pdf_text returned
    parsed,     \* the parsers main() has called, in order
    data,       \* main(): data
    written,    \* the records write_json has written
    ppc,        \* SpecParse: "in" before the call, "out" after it
    pkind,      \* SpecParse: "html" or "pdf"
    pdoc,       \* SpecParse: the document handed to the parser
    pres,       \* SpecParse: what the parser returned
    dpc,        \* SpecDates: "in" before the call, "out" after it
    dtext,      \* SpecDates: the text handed to _extract_dates_from_text
    dyear,      \* SpecDates: year_hint
    dres        \* SpecDates: [dates, raised], the call's outcome

mainVars == <<pc, today, override, fetched, soup, series_url, msg_page,
              source_url, stage, err, html, pdf_url, pdf_text, parsed, data,
              written>>
dateVars == <<dpc, dtext, dyear, dres>>
parseVars == <<ppc, pkind, pdoc, pres>>
vars == <<mainVars, dateVars, parseVars>>

(***************************************************************************)
(* Bounds of the model.                                                    *)
(***************************************************************************)
MaxTokens == 2
MaxAnchors == 2
MaxEls == 3
MaxLines == 3

SeqsUpTo(S, n) == UNION {[1..k -> S] : k \in 0..n}

(***************************************************************************)
(* Dates: datetime.date(y, m, d) is the tuple <<y, m, d>>.                 *)
(***************************************************************************)
IsLeap(y) == (y % 4 = 0 /\ y % 100 # 0) \/ y % 400 = 0

DaysInMonth(y, m) ==
    IF m \in {4, 6, 9, 11} THEN 30
    ELSE IF m = 2 THEN (IF IsLeap(y) THEN 29 ELSE 28)
    ELSE 31

\* datetime.date(y, m, d) returns (does not raise ValueError)
DateValid(y, m, d) ==
    /\ y \in 1..9999
    /\ m \in 1..12
    /\ d \in 1..DaysInMonth(y, m)

\* a <= b on dates
DateLeq(a, b) ==
    \/ a[1] < b[1]
    \/ a[1] = b[1] /\ a[2] < b[2]
    \/ a[1] = b[1] /\ a[2] = b[2] /\ a[3] <= b[3]

(***************************************************************************)
(* _extract_dates_from_text.  A token is one regex match: form "name" is a *)
(* match of MONTH_NAME_PAT (m is MONTHS[month], always 1..12; d is the     *)
(* 1-2 digit day, 0..99), form "num" a match of NUMERIC_DATE_PAT (m and d  *)
(* both 0..99).                                                            *)
(***************************************************************************)
NoDates == [dates |-> <<>>, raised |-> FALSE]

\* try: dates.append(datetime.date(...)) with no except clause
AppendDateNoCatch(acc, y, m, d) ==
    IF acc.raised THEN acc
    ELSE IF DateValid(y, m, d)
         THEN [acc EXCEPT !.dates = Append(@, <<y, m, d>>)]
         ELSE [acc EXCEPT !.raised = TRUE]

\* try: dates.append(datetime.date(year_hint, mon, day)) except ValueError: pass
AppendDate(acc, y, m, d) ==
    IF acc.raised THEN acc
    ELSE IF DateValid(y, m, d)
         THEN [acc EXCEPT !.dates = Append(@, <<y, m, d>>)]
         ELSE acc

RECURSIVE ScanTokens(_, _, _, _)
\* one `for m in PAT.finditer(text)` loop over the tokens of one form
ScanTokens(text, form, y, acc) ==
    IF text = <<>> THEN acc
    ELSE LET t == Head(text)
             guard == IF form = "name"
                      THEN t.m # 0 /\ 1 <= t.d /\ t.d <= 31
                      ELSE 1 <= t.m /\ t.m <= 12 /\ 1 <= t.d /\ t.d <= 31
             acc2 == IF t.form = form /\ guard
                     THEN AppendDate(acc, y, t.m, t.d)
                     ELSE acc
         IN  ScanTokens(Tail(text), form, y, acc2)

extract_dates_from_text_full(text, year_hint) ==
    ScanTokens(text, "num", year_hint, ScanTokens(text, "name", year_hint, NoDates))

\* the list the function returns
extract_dates_from_text(text, year_hint) ==
    extract_dates_from_text_full(text, year_hint).dates

SeqToSet(s) == {s[i] : i \in DOMAIN s}

(***************************************************************************)
(* URLs and pages.  A URL is [site, path]; every href of the model is a    *)
(* root-relative path, which urljoin resolves by keeping the base's site.  *)
(* An anchor (an <a> of a parsed page) is [guide, href, parent, around]:   *)
(* whether its text contains "discussion guide", its href ("" when the     *)
(* attribute is missing or empty), the date tokens of its parent's text    *)
(* and those of the preceding siblings and further ancestors.              *)
(***************************************************************************)
Site == "https://blackhawk.church"
LEARN_URL == [site |-> Site, path |-> "/learn/"]
MESSAGES_URL == [site |-> Site, path |-> "/messages/"]
None == [site |-> "", path |-> ""]

urljoin(base, href) == [site |-> base.site, path |-> href]

MessageHrefs == {"/message/a", "/message/b"}
PdfHrefs == {"/g/b.pdf"}

\* _collect_nearby_text: the anchor's, its parent's, up to three preceding
\* siblings' and up to three ancestors' texts, joined
collect_nearby_text(a) == a.parent \o a.around

\* max of a non-empty set of dates: sorted(...)[-1]
DateMax(S) == CHOOSE d \in S : \A e \in S : DateLeq(e, d)

\* ds_unique = sorted(set(ds)); candidates = [d for d in ds_unique if d <= today];
\* dt_choice = candidates[-1] if candidates else ds_unique[-1]
dt_choice(ds, t) ==
    LET ds_unique == SeqToSet(ds)
        candidates == {d \in ds_unique : DateLeq(d, t)}
    IN  IF candidates # {} THEN DateMax(candidates) ELSE DateMax(ds_unique)

RECURSIVE dated_guides(_, _, _)
\* the loop over soup.find_all("a") that fills `guides`
dated_guides(anchors, base, t) ==
    IF anchors = <<>> THEN <<>>
    ELSE LET a == Head(anchors)
             ds == extract_dates_from_text(collect_nearby_text(a), t[1])
             rest == dated_guides(Tail(anchors), base, t)
         IN  IF a.guide /\ ds # <<>> /\ a.href # ""
             THEN <<[date |-> dt_choice(ds, t), url |-> urljoin(base, a.href)]>> \o rest
             ELSE rest

\* list.sort(key=lambda x: x[0]) inserts stably: after the entries not later
InsertByDate(sorted, g) ==
    LET k == Cardinality({i \in DOMAIN sorted : DateLeq(sorted[i].date, g.date)})
    IN  SubSeq(sorted, 1, k) \o <<g>> \o SubSeq(sorted, k + 1, Len(sorted))

RECURSIVE sort_by_date(_)
sort_by_date(s) ==
    IF s = <<>> THEN <<>>
    ELSE InsertByDate(sort_by_date(SubSeq(s, 1, Len(s) - 1)), s[Len(s)])

NotAfter(s, t) == SelectSeq(s, LAMBDA g : DateLeq(g.date, t))

\* filtered = [g for g in guides if g[0] <= today]; the first entry instead
\* of the last
latest_not_after_first(sorted, t) ==
    LET filtered == NotAfter(sorted, t)
    IN  IF filtered # <<>> THEN filtered[1] ELSE sorted[1]

\* filtered = [g for g in guides if g[0] <= today];
\* chosen = filtered[-1] if filtered else guides[-1]
latest_not_after(sorted, t) ==
    LET filtered == NotAfter(sorted, t)
    IN  IF filtered # <<>> THEN filtered[Len(filtered)] ELSE sorted[Len(sorted)]

\* _first_discussion_link_on_messages_page, given the page get_soup returned
first_discussion_link_on_messages_page(anchors, t) ==
    LET guides == dated_guides(anchors, MESSAGES_URL, t)
    IN  IF guides = <<>> THEN None
        ELSE latest_not_after(sort_by_date(guides), t).url

RECURSIVE message_candidates(_, _)
\* the loop over soup.find_all("a", href=True) that fills `candidates`
message_candidates(anchors, t) ==
    IF anchors = <<>> THEN <<>>
    ELSE LET a == Head(anchors)
             ds == extract_dates_from_text(a.parent, t[1])
             rest == message_candidates(Tail(anchors), t)
         IN  IF a.href \in MessageHrefs /\ ds # <<>>
             THEN <<[date |-> dt_choice(ds, t), url |-> urljoin(MESSAGES_URL, a.href)]>> \o rest
             ELSE rest

\* _find_message_page_for_today, given the page get_soup returned
find_message_page_for_today(anchors, t) ==
    LET candidates == message_candidates(anchors, t)
    IN  IF candidates = <<>> THEN None
        ELSE latest_not_after(sort_by_date(candidates), t).url

RECURSIVE discussion_links(_, _)
discussion_links(anchors, url) ==
    IF anchors = <<>> THEN <<>>
    ELSE LET a == Head(anchors)
             rest == discussion_links(Tail(anchors), url)
         IN  IF a.guide /\ a.href # "" THEN <<urljoin(url, a.href)>> \o rest ELSE rest

\* returns discussion_links[0]
discussion_link_first(anchors, url) ==
    LET links == discussion_links(anchors, url)
    IN  IF links # <<>> THEN links[1] ELSE None

\* _discussion_link_from_message_page, given the page get_soup returned
discussion_link_from_message_page(anchors, url) ==
    LET links == discussion_links(anchors, url)
    IN  IF links # <<>> THEN links[Len(links)] ELSE None

\* chosen = guides[-1], whatever today is
stage3_latest(sorted, t) == sorted[Len(sorted)]

\* exact = [g for g in guides if g[0] == today];
\* chosen = exact[0] if exact else max([g for g in guides if g[0] <= today],
\*                                     key=lambda x: x[0], default=guides[-1])
stage3_chosen(sorted, t) ==
    LET exact == SelectSeq(sorted, LAMBDA g : g.date = t)
        past == NotAfter(sorted, t)
        \* max() returns the first of the entries with the greatest key
        first_max == CHOOSE i \in DOMAIN past :
                        /\ \A j \in DOMAIN past : DateLeq(past[j].date, past[i].date)
                        /\ \A j \in 1..(i - 1) : past[j].date # past[i].date
    IN  IF exact # <<>> THEN exact[1]
        ELSE IF past # <<>> THEN past[first_max]
        ELSE sorted[Len(sorted)]

\* stage 3 of find_today_discussion_pdf_or_page, given the resources page:
\* the chosen url, or None when `guides` is empty (the RuntimeError)
series_resources_link(anchors, url, t) ==
    LET guides == dated_guides(anchors, url, t)
    IN  IF guides = <<>> THEN None
        ELSE stage3_chosen(sort_by_date(guides), t).url

(***************************************************************************)
(* The Learn page: [header, links]: the source line of the first heading   *)
(* holding "Past Series" (0: there is none) and the anchors whose text is  *)
(* "Resources", each [line, href].                                         *)
(***************************************************************************)
resources_candidates(learn) ==
    IF learn.header # 0
    THEN SelectSeq(learn.links, LAMBDA a : a.line < learn.header)
    ELSE learn.links

\* find_current_series_resources_url, given the page get_soup returned
\* (None: the RuntimeError)
find_current_series_resources_url(learn) ==
    LET candidates == resources_candidates(learn)
    IN  IF candidates = <<>> THEN None ELSE urljoin(LEARN_URL, candidates[1].href)

(***************************************************************************)
(* Guide text.  A string is a sequence of characters; a word the parsers'  *)
(* regular expressions look for is one character of the model:             *)
(*   "x" a lower-case letter, "X" an upper-case letter,                    *)
(*   "what" one of what|how|why|where|when, "read", "discuss" (discuss or  *)
(*   based on), "Reflect" the words "Reflect + Discuss",                   *)
(*   "Memo" "Memorization Challenge", "Pray", "Next" "Next Steps",         *)
(*   "hyphen" U+002D, "endash" U+2013, "emdash" U+2014, "dagger" any of    *)
(*   U+2015..U+2021, "bullet" U+2022, "?", ":", " " and "nl" (newline).    *)
(***************************************************************************)
SectionNames == {"Memo", "Pray", "Next"}
WordChars == {"x", "X", "what", "read", "discuss", "Reflect"} \cup SectionNames
IsSpace(c) == c \in {" ", "nl"}

RECURSIVE lstrip(_)
lstrip(s) == IF s # <<>> /\ IsSpace(Head(s)) THEN lstrip(Tail(s)) ELSE s

RECURSIVE rstrip(_)
rstrip(s) ==
    IF s # <<>> /\ IsSpace(s[Len(s)]) THEN rstrip(SubSeq(s, 1, Len(s) - 1)) ELSE s

\* str.strip()
strip(s) == lstrip(rstrip(s))

RECURSIVE norm(_)
\* _norm: every run of whitespace becomes one space; strip
norm(s) ==
    LET t == strip(s) IN
    IF t = <<>> THEN <<>>
    ELSE IF IsSpace(Head(t)) THEN norm(Tail(t))  \* unreachable: t is stripped
    ELSE IF Len(t) >= 2 /\ IsSpace(t[2])
         THEN <<Head(t), " ">> \o norm(Tail(t))
         ELSE <<Head(t)>> \o norm(Tail(t))

RECURSIVE split_nl(_)
\* str.split("\n")
split_nl(s) ==
    IF \A i \in DOMAIN s : s[i] # "nl" THEN <<s>>
    ELSE LET k == CHOOSE i \in DOMAIN s :
                     s[i] = "nl" /\ \A j \in 1..(i - 1) : s[j] # "nl"
         IN  <<SubSeq(s, 1, k - 1)>> \o split_nl(SubSeq(s, k + 1, Len(s)))

\* str.splitlines(): no line for the empty string or after a final newline
splitlines(s) ==
    IF s = <<>> THEN <<>>
    ELSE IF s[Len(s)] = "nl" THEN split_nl(SubSeq(s, 1, Len(s) - 1))
    ELSE split_nl(s)

RECURSIVE join(_, _)
\* sep.join(parts)
join(parts, sep) ==
    IF parts = <<>> THEN <<>>
    ELSE IF Len(parts) = 1 THEN parts[1]
    ELSE parts[1] \o sep \o join(Tail(parts), sep)

\* the number of leading whitespace characters of s from position i on
RECURSIVE SpacesFrom(_, _)
SpacesFrom(s, i) ==
    IF i <= Len(s) /\ IsSpace(s[i]) THEN 1 + SpacesFrom(s, i + 1) ELSE 0

\* \b between s[i] and s[i+1] (i = 0: the start, i = Len(s): the end)
Boundary(s, i) ==
    LET l == i >= 1 /\ s[i] \in WordChars
        r == i + 1 <= Len(s) /\ s[i + 1] \in WordChars
    IN  l # r

\* the length of the match of ^\s*[cls]\s+ at the start of s (0: no match)
BulletMatch(s, cls) ==
    LET a == SpacesFrom(s, 1)
        b == SpacesFrom(s, a + 2)
    IN  IF a + 1 <= Len(s) /\ s[a + 1] \in cls /\ b >= 1 THEN a + 1 + b ELSE 0

\* RE.sub("", s) for RE = ^\s*[cls]\s+
BulletSub(s, cls) == SubSeq(s, BulletMatch(s, cls) + 1, Len(s))

\* _BULLET = ^\s*[–—-•]\s+ : U+2013, and the range U+2014..U+2022
HTML_BULLET == {"endash", "emdash", "dagger", "bullet"}
\* BULLET_RE = ^\s*[––•\-]\s+
PDF_BULLET == {"endash", "bullet", "hyphen"}

endswith_q(q) == q # <<>> /\ q[Len(q)] = "?"

\* re.search(r"(read\s+|what|how|why|where|when)", q, re.I)
html_prompt(q) ==
    \E i \in DOMAIN q :
        \/ q[i] = "what"
        \/ q[i] = "read" /\ i + 1 <= Len(q) /\ IsSpace(q[i + 1])

\* re.search(r"\b(read|what|how|why|where|when|discuss|based on)\b", q, re.I)
pdf_prompt(q) ==
    \E i \in DOMAIN q :
        \/ q[i] \in {"read", "what", "discuss"} /\ Boundary(q, i - 1) /\ Boundary(q, i)
        \/ q[i] = "Reflect" /\ Boundary(q, i)

(***************************************************************************)
(* The HTML parser.  A page is [els, links]: its elements in document      *)
(* order, taken as siblings of one parent, each [tag, text] with tag "h"   *)
(* (h1..h6), "strong" (strong or b) or "p" (anything else) and text what   *)
(* get_text("\n", strip=True) gives; and the hrefs of its a[href] in       *)
(* document order.                                                         *)
(***************************************************************************)
Contains(s, c) == \E i \in DOMAIN s : s[i] = c

\* el.get_text(" ", strip=True)
get_text_sp(el) == [i \in DOMAIN el.text |-> IF el.text[i] = "nl" THEN " " ELSE el.text[i]]

\* _headings(soup): the positions of h1..h6, strong and b
headings(els) == {i \in DOMAIN els : els[i].tag \in {"h", "strong"}}

\* _is_heading_tag
is_heading_tag(el) == el.tag = "h"

RECURSIVE collect_parts(_, _)
\* the while loop of _collect_until_next_heading from sibling n on
collect_parts(els, n) ==
    IF n > Len(els) \/ is_heading_tag(els[n]) THEN <<>>
    ELSE <<els[n].text>> \o collect_parts(els, n + 1)

NormParts(parts) == SelectSeq([i \in DOMAIN parts |-> norm(parts[i])], LAMBDA p : p # <<>>)

\* _collect_until_next_heading(start_el), start_el the element at position h
collect_until_next_heading(els, h) ==
    strip(join(NormParts(collect_parts(els, h + 1)), <<"nl">>))

\* soup.get_text("\n", strip=True)
page_text(els) ==
    join(SelectSeq([i \in DOMAIN els |-> strip(els[i].text)], LAMBDA p : p # <<>>), <<"nl">>)

First(S) == CHOOSE i \in S : \A j \in S : i <= j

\* the block the questions are read from
html_block(els) ==
    LET reflect == {h \in headings(els) : Contains(get_text_sp(els[h]), "Reflect")}
    IN  IF reflect # {} THEN collect_until_next_heading(els, First(reflect))
        ELSE page_text(els)

\* the state of the bullet loop: [items, buf]; buf <<>> is None (or empty)
NoItems == [items |-> <<>>, buf |-> <<>>]

\* items.insert(0, buf.strip()) in place of items.append(buf.strip())
html_flush_front(st) ==
    IF st.buf # <<>> THEN <<strip(st.buf)>> \o st.items ELSE st.items

\* if buf: items.append(buf.strip())
html_flush(st) ==
    IF st.buf # <<>> THEN Append(st.items, strip(st.buf)) ELSE st.items

RECURSIVE html_loop(_, _)
\* for raw in block.splitlines(): ...
html_loop(lines, st) ==
    IF lines = <<>> THEN st
    ELSE LET line == strip(Head(lines))
             st2 == IF line = <<>> THEN st
                    ELSE IF BulletMatch(line, HTML_BULLET) > 0
                    THEN [items |-> html_flush(st), buf |-> BulletSub(line, HTML_BULLET)]
                    ELSE IF st.buf # <<>>
                    THEN [st EXCEPT !.buf = st.buf \o <<" ">> \o line]
                    ELSE st
         IN  html_loop(Tail(lines), st2)

\* items, after the loop and the final flush
html_items(block) == html_flush(html_loop(splitlines(block), NoItems))

\* qs = [q for q in items if q.endswith("?") or re.search(...)]
html_questions(items) == SelectSeq(items, LAMBDA q : endswith_q(q) \/ html_prompt(q))

\* re.search(title_re, text, re.I) for the three title_re of parse_html_guide
title_match(name, text) ==
    IF name = "Memo"
    THEN \E i \in DOMAIN text : text[i] = "Memo" /\ Boundary(text, i - 1) /\ Boundary(text, i)
    ELSE strip(text) = <<name>>

Sec(t, b) == [title |-> t, body |-> b]

\* grab without `if not body: return None`
grab_keep_empty(els, name) ==
    LET hs == {h \in headings(els) : title_match(name, get_text_sp(els[h]))}
    IN  IF hs = {} THEN <<>>
        ELSE <<Sec(norm(get_text_sp(els[First(hs)])),
                   norm(collect_until_next_heading(els, First(hs))))>>

\* grab(title_re): <<>> is None, <<section>> the dict
grab(els, name) ==
    LET hs == {h \in headings(els) : title_match(name, get_text_sp(els[h]))}
        body == norm(collect_until_next_heading(els, First(hs)))
    IN  IF hs = {} THEN <<>>
        ELSE IF body = <<>> THEN <<>>
        ELSE <<Sec(norm(get_text_sp(els[First(hs)])), body)>>

\* parse_html_guide
parse_html_guide(els) ==
    [questions |-> html_questions(html_items(html_block(els))),
     sections |-> grab(els, "Memo") \o grab(els, "Pray") \o grab(els, "Next")]

(***************************************************************************)
(* The PDF parser, on the text pdfminer extracted.                         *)
(***************************************************************************)
\* [a-z0-9)\]]$ and ^[a-z]: the words of the model that end, and start, in
\* a lower-case letter (the headings are capitalised, as in the guides)
EndsLower(c) == c \in WordChars \ {"X"}
StartsLower(c) == c \in {"x", "what", "read", "discuss"}

HasNl(s, a, b) == \E k \in a..b : s[k] = "nl"

RECURSIVE dehyphenate(_, _)
\* 1) re.sub(r"(\w)-\s*\n\s*(\w)", r"\1\2", raw), from position i on
dehyphenate(s, i) ==
    IF i > Len(s) THEN <<>>
    ELSE LET w == SpacesFrom(s, i + 2)
             j == i + 2 + w
         IN  IF /\ s[i] \in WordChars
                /\ i + 1 <= Len(s) /\ s[i + 1] = "hyphen"
                /\ HasNl(s, i + 2, j - 1)
                /\ j <= Len(s) /\ s[j] \in WordChars
             THEN IF s[j] \in {"x", "X"}
                  THEN <<s[i], s[j]>> \o dehyphenate(s, j + 1)
                  \* a longer word: its last letter may open the next match
                  ELSE <<s[i]>> \o dehyphenate(s, j)
             ELSE <<s[i]>> \o dehyphenate(s, i + 1)

RECURSIVE unwrap(_, _)
\* 3) the loop over raw.split("\n") that fills `joined`
unwrap(lines, joined) ==
    IF lines = <<>> THEN joined
    ELSE LET ln == Head(lines)
             prev == joined[Len(joined)]
         IN  IF /\ joined # <<>>
                /\ prev # <<>> /\ EndsLower(prev[Len(prev)])
                /\ ln # <<>> /\ StartsLower(Head(ln))
             THEN unwrap(Tail(lines),
                         [joined EXCEPT ![Len(joined)] = prev \o <<" ">> \o strip(ln)])
             ELSE unwrap(Tail(lines), Append(joined, ln))

RECURSIVE force_bullets(_, _)
\* 4) re.sub(r"(\?|:)\s*[–\-•]\s+", r"\1\n– ", raw), from position i on
force_bullets(s, i) ==
    IF i > Len(s) THEN <<>>
    ELSE LET b == i + 1 + SpacesFrom(s, i + 1)
             v == SpacesFrom(s, b + 1)
         IN  IF /\ s[i] \in {"?", ":"}
                /\ b <= Len(s) /\ s[b] \in {"endash", "hyphen", "bullet"}
                /\ v >= 1
             THEN <<s[i], "nl", "endash", " ">> \o force_bullets(s, b + 1 + v)
             ELSE <<s[i]>> \o force_bullets(s, i + 1)

RECURSIVE normalize_bullets(_, _)
\* 5) re.sub(r"^[\s]*[•\-]\s+", "– ", raw, flags=re.M), from position i on
normalize_bullets(s, i) ==
    IF i > Len(s) THEN <<>>
    ELSE LET b == i + SpacesFrom(s, i)
             v == SpacesFrom(s, b + 1)
         IN  IF /\ (i = 1 \/ s[i - 1] = "nl")
                /\ b <= Len(s) /\ s[b] \in {"bullet", "hyphen"}
                /\ v >= 1
             THEN <<"endash", " ">> \o normalize_bullets(s, b + 1 + v)
             ELSE <<s[i]>> \o normalize_bullets(s, i + 1)

\* _normalize_pdf_text
normalize_pdf_text(raw0) ==
    IF raw0 = <<>> THEN <<>>
    ELSE LET r1 == dehyphenate(raw0, 1)
             r3 == join(unwrap(split_nl(r1), <<>>), <<"nl">>)
             r4 == force_bullets(r3, 1)
             r5 == normalize_bullets(r4, 1)
         IN  strip(r5)

\* (?=\n\s*(memorization\s*challenge|pray|next\s*steps)\b|\Z) at position e
SectionAhead(s, e) ==
    \/ e = Len(s) + 1
    \/ /\ e <= Len(s) /\ s[e] = "nl"
       /\ LET n == e + 1 + SpacesFrom(s, e + 1)
          IN  n <= Len(s) /\ s[n] \in SectionNames /\ Boundary(s, n)

\* (.+?)(?=...) from position g on: the shortest non-empty group
LazyGroup(s, g) ==
    LET e == CHOOSE k \in (g + 1)..(Len(s) + 1) :
                 SectionAhead(s, k) /\ \A j \in (g + 1)..(k - 1) : ~SectionAhead(s, j)
    IN  SubSeq(s, g, e - 1)

\* m = re.search(r"reflect\s*\+\s*discuss\s*(.+?)(?=...)", raw); block
pdf_block(raw) ==
    LET ms == {i \in DOMAIN raw :
                  raw[i] = "Reflect" /\ i + 1 + SpacesFrom(raw, i + 1) <= Len(raw)}
        i0 == First(ms)
    IN  IF ms = {} THEN raw
        ELSE LazyGroup(raw, i0 + 1 + SpacesFrom(raw, i0 + 1))

\* if buf: items.append(buf.strip())
pdf_flush(st) ==
    IF st.buf # <<>> THEN Append(st.items, strip(st.buf)) ELSE st.items

RECURSIVE pdf_loop(_, _)
\* for ln in block.splitlines(): ...
pdf_loop(lines, st) ==
    IF lines = <<>> THEN st
    ELSE LET t == strip(Head(lines))
             st2 == IF t = <<>> THEN st
                    ELSE IF BulletMatch(t, PDF_BULLET) > 0
                    THEN [items |-> pdf_flush(st), buf |-> BulletSub(t, PDF_BULLET)]
                    ELSE IF st.buf # <<>>
                    THEN [st EXCEPT !.buf = strip(st.buf \o <<" ">> \o t)]
                    ELSE st
         IN  pdf_loop(Tail(lines), st2)

pdf_items(block) == pdf_flush(pdf_loop(splitlines(block), NoItems))

\* questions = [q.strip() for q in items if q.endswith("?") or re.search(...)]
pdf_questions(items) ==
    LET kept == SelectSeq(items, LAMBDA q : endswith_q(q) \/ pdf_prompt(q))
    IN  [i \in DOMAIN kept |-> strip(kept[i])]

\* where the group of grab_sec's regex starts when \n\s*name matches with
\* the name at position n (0: no match there)
SecGroupStart(s, n) ==
    LET c == n + 1 + SpacesFrom(s, n + 1)
        colon == c <= Len(s) /\ s[c] = ":"
        c2 == IF colon THEN c + 1 + SpacesFrom(s, c + 1) ELSE c
    IN  IF c2 <= Len(s) THEN c2
        ELSE IF colon THEN c            \* :? gives the colon back
        ELSE IF c > n + 1 THEN Len(s)   \* \s* gives its last character back
        ELSE 0

\* grab_sec(name): <<>> is None, <<section>> the dict
grab_sec(raw, name) ==
    LET ns == {n \in DOMAIN raw :
                  /\ raw[n] = name
                  /\ \E p \in 1..(n - 1) :
                        raw[p] = "nl" /\ \A k \in (p + 1)..(n - 1) : IsSpace(raw[k])
                  /\ SecGroupStart(raw, n) # 0}
        body == norm(LazyGroup(raw, SecGroupStart(raw, First(ns))))
    IN  IF ns = {} THEN <<>>
        ELSE <<Sec(<<name>>, BulletSub(body, PDF_BULLET))>>

\* parse_pdf_guide, given the text fetch_pdf_text returned
parse_pdf_guide(raw0) ==
    LET raw == normalize_pdf_text(raw0)
    IN  [questions |-> pdf_questions(pdf_items(pdf_block(raw))),
         sections |-> grab_sec(raw, "Memo") \o grab_sec(raw, "Pray") \o grab_sec(raw, "Next")]

(***************************************************************************)
(* main() up to the link: one action per call that fetches a page.  What a *)
(* fetch returns is the environment's choice: a transport failure          *)
(* (requests raises, raise_for_status raises) or a page.                   *)
(***************************************************************************)
Sep14 == [form |-> "name", m |-> 9, d |-> 14]
Sep21 == [form |-> "name", m |-> 9, d |-> 21]
Sep28 == [form |-> "name", m |-> 9, d |-> 28]
Feb30 == [form |-> "num", m |-> 2, d |-> 30]

Todays == {<<2024, 9, 10>>, <<2024, 9, 21>>}

Anchor(g, h, p, r) == [guide |-> g, href |-> h, parent |-> p, around |-> r]

\* pages of "discussion guide" anchors (the messages index, a resources
\* page): dated guide links, and anchors the scan passes over (another
\* label, no date, no href)
GuideAnchors ==
    {Anchor(TRUE, h, p, r) : h \in {"/g/a", "/g/b.pdf"},
                            p \in {<<Sep14>>, <<Sep21>>}, r \in {<<>>, <<Sep28>>}}
    \cup {Anchor(TRUE, h, <<Sep28>>, <<>>) : h \in {"/g/a", "/g/b.pdf"}}
    \cup {Anchor(FALSE, "/g/a", <<Sep21>>, <<>>), Anchor(TRUE, "/g/a", <<>>, <<>>),
          Anchor(TRUE, "/g/a", <<Feb30>>, <<>>), Anchor(TRUE, "", <<Sep21>>, <<>>)}
GuidePages == SeqsUpTo(GuideAnchors, MaxAnchors)

\* the messages index as stage 2 reads it: dated links to message pages,
\* and anchors the scan passes over
MessageAnchors ==
    {Anchor(FALSE, h, p, <<>>) : h \in MessageHrefs,
                                p \in {<<Sep14>>, <<Sep21>>, <<Sep28>>}}
    \cup {Anchor(FALSE, "/g/a", <<Sep21>>, <<>>), Anchor(FALSE, "/message/a", <<Feb30>>, <<>>),
          Anchor(FALSE, "", <<Sep21>>, <<>>)}
IndexPages == SeqsUpTo(MessageAnchors, MaxAnchors)

\* a message page
DetailAnchors ==
    {Anchor(TRUE, "/g/a", <<>>, <<>>), Anchor(TRUE, "/g/b.pdf", <<>>, <<>>),
     Anchor(TRUE, "", <<>>, <<>>), Anchor(FALSE, "/g/a", <<>>, <<>>)}
DetailPages == SeqsUpTo(DetailAnchors, MaxAnchors)

LearnPages ==
    [header : {0, 2}, links : SeqsUpTo([line : {1, 3}, href : {"/series/now", "/series/old"}], MaxAnchors)]

OverrideUrl == [site |-> Site, path |-> "/g/a"]
NoErr == [type |-> "", at |-> ""]

DatesIdle ==
    /\ dpc = "idle"
    /\ dtext = <<>>
    /\ dyear = 0
    /\ dres = NoDates

ParseIdle ==
    /\ ppc = "idle"
    /\ pkind = ""
    /\ pdoc = <<>>
    /\ pres = [questions |-> <<>>, sections |-> <<>>]

MainIdle ==
    /\ pc = "idle"
    /\ today = <<0, 0, 0>>
    /\ override = FALSE
    /\ fetched = <<>>
    /\ soup = <<>>
    /\ series_url = None
    /\ msg_page = None
    /\ source_url = None
    /\ stage = 0
    /\ err = NoErr
    /\ html = [els |-> <<>>, links |-> <<>>]
    /\ pdf_url = None
    /\ pdf_text = <<>>
    /\ parsed = <<>>
    /\ data = [questions |-> <<>>, sections |-> <<>>]
    /\ written = <<>>

Init ==
    /\ pc = "main"
    /\ today \in Todays
    /\ override \in BOOLEAN
    /\ fetched = <<>>
    /\ soup = <<>>
    /\ series_url = None
    /\ msg_page = None
    /\ source_url = None
    /\ stage = 0
    /\ err = NoErr
    /\ html = [els |-> <<>>, links |-> <<>>]
    /\ pdf_url = None
    /\ pdf_text = <<>>
    /\ parsed = <<>>
    /\ data = [questions |-> <<>>, sections |-> <<>>]
    /\ written = <<>>
    /\ DatesIdle
    /\ ParseIdle

\* requests.get(url, ...) called in function `by`
Get(by, url) == fetched' = Append(fetched, [by |-> by, url |-> url])

\* an exception nobody catches ends main()
Raise(type) ==
    /\ pc' = "crashed"
    /\ err' = [type |-> type, at |-> pc]

\* series_url = find_current_series_resources_url(): get_soup raises
FindSeriesFails ==
    /\ pc = "main"
    /\ Get("find_current_series_resources_url", LEARN_URL)
    /\ Raise("HTTPError")
    /\ UNCHANGED <<today, override, soup, series_url, msg_page, source_url, stage,
                   html, pdf_url, pdf_text, parsed, data, written, dateVars,
                   parseVars>>

\* series_url = find_current_series_resources_url(); then --override or discovery
FindSeries ==
    /\ pc = "main"
    /\ Get("find_current_series_resources_url", LEARN_URL)
    /\ \E learn \in LearnPages :
          LET url == find_current_series_resources_url(learn) IN
          /\ IF url = None
             THEN /\ Raise("RuntimeError: no Resources link")
                  /\ UNCHANGED <<series_url, source_url>>
             ELSE /\ series_url' = url
                  /\ err' = err
                  /\ IF override
                     THEN pc' = "fetch" /\ source_url' = OverrideUrl
                     ELSE pc' = "stage1" /\ source_url' = source_url
    /\ UNCHANGED <<today, override, soup, msg_page, stage,
                   html, pdf_url, pdf_text, parsed, data, written, dateVars,
                   parseVars>>

\* 1) direct = _first_discussion_link_on_messages_page(today): get_soup raises
Stage1Fails ==
    /\ pc = "stage1"
    /\ Get("_first_discussion_link_on_messages_page", MESSAGES_URL)
    /\ Raise("HTTPError")
    /\ UNCHANGED <<today, override, soup, series_url, msg_page, source_url, stage,
                   html, pdf_url, pdf_text, parsed, data, written, dateVars,
                   parseVars>>

\* 1) direct = _first_discussion_link_on_messages_page(today); if direct: return
Stage1 ==
    /\ pc = "stage1"
    /\ Get("_first_discussion_link_on_messages_page", MESSAGES_URL)
    /\ \E page \in GuidePages :
          LET direct == first_discussion_link_on_messages_page(page, today) IN
          /\ soup' = page
          /\ IF direct # None
             THEN pc' = "fetch" /\ source_url' = direct /\ stage' = 1
             ELSE pc' = "stage2" /\ UNCHANGED <<source_url, stage>>
    /\ UNCHANGED <<today, override, series_url, msg_page, err,
                   html, pdf_url, pdf_text, parsed, data, written, dateVars,
                   parseVars>>

\* 2) msg_page = _find_message_page_for_today(today): get_soup raises
Stage2Fails ==
    /\ pc = "stage2"
    /\ Get("_find_message_page_for_today", MESSAGES_URL)
    /\ Raise("HTTPError")
    /\ UNCHANGED <<today, override, soup, series_url, msg_page, source_url, stage,
                   html, pdf_url, pdf_text, parsed, data, written, dateVars,
                   parseVars>>

\* 2) msg_page = _find_message_page_for_today(today)
Stage2 ==
    /\ pc = "stage2"
    /\ Get("_find_message_page_for_today", MESSAGES_URL)
    /\ \E page \in IndexPages :
          /\ soup' = page
          /\ msg_page' = find_message_page_for_today(page, today)
          /\ pc' = IF msg_page' # None THEN "stage2b" ELSE "stage3"
    /\ UNCHANGED <<today, override, series_url, source_url, stage, err,
                   html, pdf_url, pdf_text, parsed, data, written, dateVars,
                   parseVars>>

\* dg = _discussion_link_from_message_page(msg_page): get_soup raises
Stage2PageFails ==
    /\ pc = "stage2b"
    /\ Get("_discussion_link_from_message_page", msg_page)
    /\ Raise("HTTPError")
    /\ UNCHANGED <<today, override, soup, series_url, msg_page, source_url, stage,
                   html, pdf_url, pdf_text, parsed, data, written, dateVars,
                   parseVars>>

\* dg = _discussion_link_from_message_page(msg_page); if dg: return
Stage2Page ==
    /\ pc = "stage2b"
    /\ Get("_discussion_link_from_message_page", msg_page)
    /\ \E page \in DetailPages :
          LET dg == discussion_link_from_message_page(page, msg_page) IN
          /\ soup' = page
          /\ IF dg # None
             THEN pc' = "fetch" /\ source_url' = dg /\ stage' = 2
             ELSE pc' = "stage3" /\ UNCHANGED <<source_url, stage>>
    /\ UNCHANGED <<today, override, series_url, msg_page, err,
                   html, pdf_url, pdf_text, parsed, data, written, dateVars,
                   parseVars>>

\* 3) soup_r = get_soup(series_url) raises
Stage3Fails ==
    /\ pc = "stage3"
    /\ Get("find_today_discussion_pdf_or_page", series_url)
    /\ Raise("HTTPError")
    /\ UNCHANGED <<today, override, soup, series_url, msg_page, source_url, stage,
                   html, pdf_url, pdf_text, parsed, data, written, dateVars,
                   parseVars>>

\* 3) the series resources list; no guide: RuntimeError
Stage3 ==
    /\ pc = "stage3"
    /\ Get("find_today_discussion_pdf_or_page", series_url)
    /\ \E page \in GuidePages :
          LET chosen == series_resources_link(page, series_url, today) IN
          /\ soup' = page
          /\ IF chosen # None
             THEN pc' = "fetch" /\ source_url' = chosen /\ stage' = 3 /\ err' = err
             ELSE Raise("RuntimeError: no Discussion Guide link") /\ UNCHANGED <<source_url, stage>>
    /\ UNCHANGED <<today, override, series_url, msg_page,
                   html, pdf_url, pdf_text, parsed, data, written, dateVars,
                   parseVars>>

(***************************************************************************)
(* main() from the link on: fetch, parse, the single PDF escalation, and   *)
(* write_json.                                                             *)
(***************************************************************************)
El(tag, text) == [tag |-> tag, text |-> text]
Q1 == <<"endash", " ", "what", " ", "x", "?">>
Q2 == <<"endash", " ", "x", "?">>

\* the guide pages main() may be served: [els, links]
HtmlGuides ==
    {[els |-> <<El("h", <<"Reflect">>), El("p", Q1), El("p", Q2)>>, links |-> <<"/g/b.pdf">>],
     [els |-> <<El("h", <<"Pray">>), El("p", <<"x">>)>>, links |-> <<"/g/a", "/g/b.pdf", "/g/c.pdf">>],
     [els |-> <<El("p", <<"x">>)>>, links |-> <<"/g/a">>],
     [els |-> <<>>, links |-> <<>>]}

\* the texts pdfminer may extract
PdfGuides ==
    {<<"Reflect", "nl">> \o Q1 \o <<"nl", "Pray", "nl", "x">>,
     <<"X", "nl", "Next", "nl", "X">>,
     <<>>}

AllPdfHrefs == PdfHrefs \cup {"/g/c.pdf"}

\* source_url.lower().endswith(".pdf")
endswith_pdf(href) == href \in AllPdfHrefs

\* the loop over soup.select("a[href]") without its break: the last href
\* ending in .pdf
last_pdf_link(links, base) ==
    LET pdfs == SelectSeq(links, LAMBDA h : endswith_pdf(h))
    IN  IF pdfs = <<>> THEN None ELSE urljoin(base, pdfs[Len(pdfs)])

\* the loop over soup.select("a[href]"): the first href ending in .pdf
first_pdf_link(links, base) ==
    LET pdfs == SelectSeq(links, LAMBDA h : endswith_pdf(h))
    IN  IF pdfs = <<>> THEN None ELSE urljoin(base, pdfs[1])

NoData == [questions |-> <<>>, sections |-> <<>>]

\* r = requests.get(source_url, ...); r.raise_for_status() raises
FetchGuideFails ==
    /\ pc = "fetch"
    /\ Get("main", source_url)
    /\ Raise("HTTPError")
    /\ soup' = <<>>
    /\ UNCHANGED <<today, override, series_url, msg_page, source_url, stage,
                   html, pdf_url, pdf_text, parsed, data, written, dateVars,
                   parseVars>>

\* the fetch, the sniff, and for HTML the parse and the search for a PDF link
FetchGuide ==
    /\ pc = "fetch"
    /\ Get("main", source_url)
    /\ soup' = <<>>
    /\ \E content_type \in {"text/html", "application/pdf"} :
          IF endswith_pdf(source_url.path) \/ content_type = "application/pdf"
          THEN /\ pc' = "parse_pdf"
               /\ pdf_url' = source_url
               /\ UNCHANGED <<html, parsed, data>>
          ELSE \E page \in HtmlGuides :
                  LET d == parse_html_guide(page.els)
                      pdf == first_pdf_link(page.links, source_url)
                  IN  /\ html' = page
                      /\ data' = d
                      /\ parsed' = Append(parsed, "html")
                      /\ IF d.questions = <<>> /\ pdf # None
                         THEN pc' = "parse_pdf" /\ pdf_url' = pdf
                         ELSE pc' = "write" /\ pdf_url' = pdf_url
    /\ UNCHANGED <<today, override, series_url, msg_page, source_url, stage, err,
                   pdf_text, written, dateVars, parseVars>>

\* parse_pdf_guide: fetch_pdf_text raises
ParsePdfFails ==
    /\ pc = "parse_pdf"
    /\ Get("fetch_pdf_text", pdf_url)
    /\ Raise("HTTPError")
    /\ UNCHANGED <<today, override, soup, series_url, msg_page, source_url, stage,
                   html, pdf_url, pdf_text, parsed, data, written, dateVars,
                   parseVars>>

\* data = parse_pdf_guide(...)
ParsePdf ==
    /\ pc = "parse_pdf"
    /\ Get("fetch_pdf_text", pdf_url)
    /\ \E raw0 \in PdfGuides :
          /\ pdf_text' = raw0
          /\ data' = parse_pdf_guide(raw0)
          /\ parsed' = Append(parsed, "pdf")
    /\ pc' = "write"
    /\ UNCHANGED <<today, override, soup, series_url, msg_page, source_url, stage, err,
                   html, pdf_url, written, dateVars, parseVars>>

\* write_json(source_url, data, ...)
WriteJson ==
    /\ pc = "write"
    /\ written' = Append(written, [url |-> source_url,
                                   questions |-> data.questions,
                                   sections |-> data.sections])
    /\ pc' = "done"
    /\ UNCHANGED <<today, override, fetched, soup, series_url, msg_page, source_url,
                   stage, err, html, pdf_url, pdf_text, parsed, data, dateVars,
                   parseVars>>

Next ==
    \/ FindSeriesFails \/ FindSeries
    \/ Stage1Fails \/ Stage1
    \/ Stage2Fails \/ Stage2
    \/ Stage2PageFails \/ Stage2Page
    \/ Stage3Fails \/ Stage3
    \/ FetchGuideFails \/ FetchGuide
    \/ ParsePdfFails \/ ParsePdf
    \/ WriteJson

Spec == Init /\ [][Next]_vars

(***************************************************************************)
(* The claims about discovery and main().                                  *)
(***************************************************************************)
LastGetBy(f) == fetched # <<>> /\ fetched[Len(fetched)].by = f

Stage2Work == {"_find_message_page_for_today", "_discussion_link_from_message_page"}
Stage3Work == {"find_current_series_resources_url", "find_today_discussion_pdf_or_page"}

\* C1: the stages run in the order 1, 2, 3 and the first that produces a
\* link wins: once stage 1 has returned the link, nothing of stage 2 or 3
\* (the lookup of the current series on the Learn page included) has been
\* done in the run, and once stage 2 has, nothing of stage 3.
C1_FirstStageWins ==
    /\ stage = 1 => \A i \in DOMAIN fetched : fetched[i].by \notin Stage2Work \cup Stage3Work
    /\ stage = 2 => \A i \in DOMAIN fetched : fetched[i].by \notin Stage3Work

\* C2: a failed page fetch in stage 1 or 2 ends only that stage: it never
\* ends the run while a later stage is untried.
C2_TransportFailSoft ==
    ~(pc = "crashed" /\ err.type = "HTTPError" /\ err.at \in {"stage1", "stage2", "stage2b"})

\* C3: the run ends with the fatal discovery error exactly when all three
\* stages were exhausted without a link, and then writes no record; every
\* other run writes exactly one complete record.
C3_FatalIffExhausted ==
    /\ pc = "crashed" =>
          /\ err = [type |-> "RuntimeError: no Discussion Guide link", at |-> "stage3"]
          /\ written = <<>>
    /\ pc = "done" =>
          /\ Len(written) = 1
          /\ written[1] = [url |-> source_url, questions |-> data.questions,
                           sections |-> data.sections]

\* the dates an anchor's context yields
AnchorDates(a, t) == SeqToSet(extract_dates_from_text(collect_nearby_text(a), t[1]))

\* the resolution policy on a non-empty set of dates: the latest date
\* <= today, or, when none is, the latest date
IsPolicyDate(d, D, t) ==
    /\ d \in D
    /\ IF \E e \in D : DateLeq(e, t)
       THEN DateLeq(d, t) /\ \A e \in D : DateLeq(e, t) => DateLeq(e, d)
       ELSE \A e \in D : DateLeq(e, d)

\* the policy of stage 3: today if it is there, else the latest date
\* <= today, else the latest date
IsStage3Date(d, D, t) ==
    /\ d \in D
    /\ IF t \in D THEN d = t
       ELSE IF \E e \in D : DateLeq(e, t)
       THEN DateLeq(d, t) /\ \A e \in D : DateLeq(e, t) => DateLeq(e, d)
       ELSE \A e \in D : DateLeq(e, d)

Dated(page, t) == {i \in DOMAIN page : page[i].guide /\ AnchorDates(page[i], t) # {}}
DatedWithHref(page, t) == {i \in Dated(page, t) : page[i].href # ""}
Resolved(a, t) == CHOOSE d \in AnchorDates(a, t) : IsPolicyDate(d, AnchorDates(a, t), t)
ResolvedDates(page, Q, t) == {Resolved(page[j], t) : j \in Q}

AfterStage1 ==
    pc \in {"fetch", "stage2"} /\ LastGetBy("_first_discussion_link_on_messages_page")

\* stage 1 returned the link of an anchor of Q whose resolved date the
\* policy picks among those of Q; no link when Q is empty
Stage1Picks(Q) ==
    IF Q = {} THEN stage = 0 /\ pc = "stage2"
    ELSE /\ stage = 1
         /\ \E i \in Q :
               /\ source_url = urljoin(MESSAGES_URL, soup[i].href)
               /\ IsPolicyDate(Resolved(soup[i], today), ResolvedDates(soup, Q, today), today)

\* a returned link is that of an anchor of Q whose resolved date the
\* policy picks among those of Q
Stage1LinkOf(Q) ==
    stage = 1 =>
        \E i \in Q :
            /\ source_url = urljoin(MESSAGES_URL, soup[i].href)
            /\ IsPolicyDate(Resolved(soup[i], today), ResolvedDates(soup, Q, today), today)

AfterStage3 ==
    /\ LastGetBy("find_today_discussion_pdf_or_page")
    /\ pc = "fetch" \/ (pc = "crashed" /\ err.type # "HTTPError")

Stage3Picks(Q) ==
    IF Q = {} THEN stage = 0 /\ pc = "crashed"
    ELSE /\ stage = 3
         /\ \E i \in Q :
               /\ source_url = urljoin(series_url, soup[i].href)
               /\ IsStage3Date(Resolved(soup[i], today), ResolvedDates(soup, Q, today), today)

\* C5 as stated: stage 3 chooses, among the dated "discussion guide"
\* anchors of the resources page, one resolved to today if there is one,
\* else one with the latest resolved date <= today, else the latest.
C5_Stage3PolicyAllAnchors ==
    AfterStage3 =>
        (stage = 3 =>
            \E i \in Dated(soup, today) :
                /\ source_url = urljoin(series_url, soup[i].href)
                /\ IsStage3Date(Resolved(soup[i], today),
                                ResolvedDates(soup, Dated(soup, today), today), today))

\* C5 amended: the same among the dated anchors that carry an href.
C5_Stage3Policy == AfterStage3 => Stage3Picks(DatedWithHref(soup, today))

\* C5 witness: the resources page lists guides dated Sept 14 and Sept 21,
\* today is 2024-09-21 and the Sept 21 link was chosen.
C5_Witness ==
    /\ AfterStage3 /\ stage = 3 /\ today = <<2024, 9, 21>>
    /\ Len(soup) = 2
    /\ soup[1] = Anchor(TRUE, "/g/a", <<Sep14>>, <<>>)
    /\ soup[2] = Anchor(TRUE, "/g/b.pdf", <<Sep21>>, <<>>)
    /\ source_url.path = "/g/b.pdf"

\* the dates of the text around a link to a message page
LinkDates(a, t) == SeqToSet(extract_dates_from_text(a.parent, t[1]))

AfterStage2 ==
    pc \in {"stage2b", "stage3"} /\ LastGetBy("_find_message_page_for_today")

AfterStage2Page ==
    pc \in {"fetch", "stage3"} /\ LastGetBy("_discussion_link_from_message_page")

GuideLinks(page) == {i \in DOMAIN page : page[i].guide /\ page[i].href # ""}

Last(S) == CHOOSE i \in S : \A j \in S : j <= i

FirstPdfOf(page, base) ==
    LET P == {i \in DOMAIN page.links : page.links[i] \in AllPdfHrefs}
    IN  IF P = {} THEN None ELSE urljoin(base, page.links[First(P)])

\* C8: main() escalates to the PDF parser at most once: only when the HTML
\* parse gave no question, to the first link of that page ending in .pdf,
\* whose result is final; an HTML parse with a question is final; and a run
\* whose escalation also gave no question still writes its record, with an
\* empty question list.
C8_SingleEscalation ==
    /\ parsed \in {<<>>, <<"html">>, <<"pdf">>, <<"html", "pdf">>}
    /\ parsed = <<"html", "pdf">> =>
          /\ parse_html_guide(html.els).questions = <<>>
          /\ pdf_url = FirstPdfOf(html, source_url) /\ pdf_url # None
          /\ data = parse_pdf_guide(pdf_text)
          /\ pc \in {"write", "done"}
    /\ parsed = <<"html">> =>
          /\ data = parse_html_guide(html.els)
          /\ data.questions # <<>> => pc \in {"write", "done"}
          /\ pc \in {"write", "done"} =>
                data.questions # <<>> \/ FirstPdfOf(html, source_url) = None
    /\ pc = "done" =>
          written = <<[url |-> source_url, questions |-> data.questions,
                       sections |-> data.sections]>>

\* C8 witness: the HTML parse and the escalation both gave no question and
\* the record was written with an empty question list.
C8_Witness ==
    /\ pc = "done" /\ parsed = <<"html", "pdf">>
    /\ Len(html.links) = 3
    /\ written[1].questions = <<>>

(***************************************************************************)
(* SpecDates: _extract_dates_from_text applied to every bounded text.      *)
(***************************************************************************)
DateDays == {0, 29, 30, 31, 32}
NameTokens == [form : {"name"}, m : {2, 4, 12}, d : DateDays]
NumTokens == [form : {"num"}, m : {0, 2, 4, 13}, d : DateDays]
DateTokens == NameTokens \cup NumTokens
YearHints == {2023, 2024, 2100}

InitDates ==
    /\ dpc = "in"
    /\ dtext \in SeqsUpTo(DateTokens, MaxTokens)
    /\ dyear \in YearHints
    /\ dres = NoDates
    /\ MainIdle
    /\ ParseIdle

ExtractDates ==
    /\ dpc = "in"
    /\ dres' = extract_dates_from_text_full(dtext, dyear)
    /\ dpc' = "out"
    /\ UNCHANGED <<dtext, dyear, mainVars, parseVars>>

NextDates == ExtractDates

SpecDates == InitDates /\ [][NextDates]_vars

\* C6: extraction never raises, and every date it returns is a valid
\* calendar date of the hinted year: an impossible month/day combination
\* (February 30, day 0 or > 31, month 0 or > 12) is left out.
C6_DatesValidNoRaise ==
    dpc = "out" =>
        /\ ~dres.raised
        /\ \A i \in DOMAIN dres.dates :
              LET x == dres.dates[i] IN
              /\ x[1] = dyear
              /\ x[2] \in 1..12
              /\ x[3] \in 1..DaysInMonth(dyear, x[2])
        /\ \A t \in SeqToSet(dtext) :
              ~DateValid(dyear, t.m, t.d) => <<dyear, t.m, t.d>> \notin SeqToSet(dres.dates)

\* C6 witness: a text holding February 30 beside a valid date was scanned:
\* the valid date is returned, February 30 is not.
C6_Witness ==
    /\ dpc = "out"
    /\ \E i \in DOMAIN dtext : dtext[i].m = 2 /\ dtext[i].d = 30
    /\ Len(dres.dates) = 1

(***************************************************************************)
(* SpecParse: each content parser applied to every bounded document.       *)
(***************************************************************************)
HtmlEls ==
    {El("h", <<"Reflect">>), El("strong", <<"Reflect">>), El("h", <<"Pray">>),
     El("strong", <<"Memo">>), El("h", <<"x", " ", "Memo">>),
     El("p", Q1), El("p", Q2), El("p", <<"hyphen", " ", "x", "?">>),
     El("p", <<"emdash", " ", "read", " ", "x", "nl", "x">>),
     El("p", <<"x">>), El("p", <<>>)}
HtmlDocs == SeqsUpTo(HtmlEls, MaxEls)

PdfLines ==
    {<<"Reflect">>, Q1, Q2, <<"hyphen", " ", "X", " ", "discuss">>,
     <<"x">>, <<"X", "?", " ", "bullet", " ", "read", " ", "x", "hyphen">>,
     <<"Pray">>, <<"Pray", ":">>, <<" ", "Memo", ":", " ", "hyphen", " ", "X">>,
     <<"Next", "x">>, <<>>}
PdfTexts == {join(ls, <<"nl">>) : ls \in SeqsUpTo(PdfLines, MaxLines)}

InitParse ==
    /\ ppc = "in"
    /\ \/ pkind = "html" /\ pdoc \in HtmlDocs
       \/ pkind = "pdf" /\ pdoc \in PdfTexts
    /\ pres = NoData
    /\ MainIdle
    /\ DatesIdle

ParseHtml ==
    /\ ppc = "in" /\ pkind = "html"
    /\ pres' = parse_html_guide(pdoc)
    /\ ppc' = "out"
    /\ UNCHANGED <<pkind, pdoc, mainVars, dateVars>>

ParsePdfText ==
    /\ ppc = "in" /\ pkind = "pdf"
    /\ pres' = parse_pdf_guide(pdoc)
    /\ ppc' = "out"
    /\ UNCHANGED <<pkind, pdoc, mainVars, dateVars>>

NextParse == ParseHtml \/ ParsePdfText

SpecParse == InitParse /\ [][NextParse]_vars

(***************************************************************************)
(* The claims about the content parsers.                                   *)
(***************************************************************************)
\* the lines the parser's bullet loop reads, and its bullet characters
SourceLines ==
    IF pkind = "html" THEN splitlines(html_block(pdoc))
    ELSE splitlines(pdf_block(normalize_pdf_text(pdoc)))
BulletChars == IF pkind = "html" THEN HTML_BULLET ELSE PDF_BULLET

IsPrefix(p, s) == Len(p) <= Len(s) /\ SubSeq(s, 1, Len(p)) = p

\* question q opens with the text of bullet line `line`, its marker removed
FromBullet(q, line) ==
    LET l == strip(line)
    IN  BulletMatch(l, BulletChars) > 0 /\ IsPrefix(BulletSub(l, BulletChars), q)

RECURSIVE InOrder(_, _)
\* the questions qs come, one each and in order, from bullet lines of ls
InOrder(qs, ls) ==
    IF qs = <<>> THEN TRUE
    ELSE IF ls = <<>> THEN FALSE
    ELSE IF FromBullet(Head(qs), Head(ls)) THEN InOrder(Tail(qs), Tail(ls))
    ELSE InOrder(qs, Tail(ls))

\* C7: for either parser, no question is the empty string, and the
\* questions keep the order of the bullet lines they came from.
C7_QuestionsOrdered ==
    ppc = "out" =>
        /\ \A i \in DOMAIN pres.questions : pres.questions[i] # <<>>
        /\ InOrder(pres.questions, SourceLines)

\* C7 witness: a document with a bullet that is no question between two
\* that are: the two questions were returned.
C7_Witness ==
    /\ ppc = "out"
    /\ Len(pres.questions) = 2
    /\ pres.questions[1] # pres.questions[2]
    /\ Len(SelectSeq(SourceLines, LAMBDA l : BulletMatch(strip(l), BulletChars) > 0)) = 3

\* the recognized heading name a section's title stands for
NameOf(title) ==
    IF title = <<"Pray">> THEN "Pray"
    ELSE IF title = <<"Next">> THEN "Next"
    ELSE IF Contains(title, "Memo") THEN "Memo"
    ELSE "none"

\* C9: for either parser, the sections hold at most one entry for each of
\* Memorization Challenge, Pray and Next Steps, and every entry's body is
\* non-empty after whitespace normalization.
C9_SectionsDistinctNonEmpty ==
    ppc = "out" =>
        /\ \A i \in DOMAIN pres.sections :
              /\ NameOf(pres.sections[i].title) \in SectionNames
              /\ norm(pres.sections[i].body) # <<>>
        /\ \A i, j \in DOMAIN pres.sections :
              NameOf(pres.sections[i].title) = NameOf(pres.sections[j].title) => i = j

\* C9 witness: an HTML page with a Pray heading that has a body and a
\* Memorization Challenge heading that has none: one section was returned.
C9_Witness ==
    /\ ppc = "out" /\ pkind = "html"
    /\ \E i, j \in DOMAIN pdoc :
          /\ pdoc[i] = El("h", <<"Pray">>)
          /\ pdoc[j] = El("strong", <<"Memo">>) /\ j = Len(pdoc)
    /\ Len(pres.sections) = 1
    /\ pres.sections[1].title = <<"Pray">>

(***************************************************************************)
(* SpecItems: the bullet loop and the question filter of both parsers,     *)
(* applied to the same working block.                                      *)
(***************************************************************************)
ItemLines ==
    {<<"endash", " ", "X", "?">>, <<"x">>, <<"hyphen", " ", "X", "?">>,
     <<"emdash", " ", "X", "?">>, <<"bullet", " ", "discuss", " ", "x">>,
     <<"dagger", " ", "x">>, <<"endash", " ", "x", "what">>,
     <<"endash", " ", "read", " ", "x">>, <<" ">>}
Blocks == {join(ls, <<"nl">>) : ls \in SeqsUpTo(ItemLines, MaxLines)}

NoMerge == [hitems |-> <<>>, hqs |-> <<>>, pitems |-> <<>>, pqs |-> <<>>]

InitItems ==
    /\ ppc = "in"
    /\ pkind = "block"
    /\ pdoc \in Blocks
    /\ pres = NoMerge
    /\ MainIdle
    /\ DatesIdle

\* parse_html_guide on the block: the bullet loop, then the filter
HtmlPath ==
    /\ pkind = "block" /\ ppc \in {"in", "pdf"}
    /\ pres' = [pres EXCEPT !.hitems = html_items(pdoc),
                            !.hqs = html_questions(html_items(pdoc))]
    /\ ppc' = IF ppc = "in" THEN "html" ELSE "out"
    /\ UNCHANGED <<pkind, pdoc, mainVars, dateVars>>

\* parse_pdf_guide on the block: the bullet loop, then the filter
PdfPath ==
    /\ pkind = "block" /\ ppc \in {"in", "html"}
    /\ pres' = [pres EXCEPT !.pitems = pdf_items(pdoc),
                            !.pqs = pdf_questions(pdf_items(pdoc))]
    /\ ppc' = IF ppc = "in" THEN "pdf" ELSE "out"
    /\ UNCHANGED <<pkind, pdoc, mainVars, dateVars>>

NextItems == HtmlPath \/ PdfPath

SpecItems == InitItems /\ [][NextItems]_vars

(***************************************************************************)
(* The claims about the bullet loop and the filter.                        *)
(***************************************************************************)
\* en dash, em dash, ASCII hyphen, bullet
DashFamily == {"endash", "emdash", "hyphen", "bullet"}

\* the non-blank lines of a block, stripped
NonBlank(block) ==
    SelectSeq([i \in DOMAIN splitlines(block) |-> strip(splitlines(block)[i])],
              LAMBDA l : l # <<>>)

RECURSIVE MergeRuns(_, _, _)
\* the items of the lines ls: a line opening with a character of cls and
\* whitespace starts an item with the line's text after the marker, any
\* other line is joined by a space to the item that is open
MergeRuns(ls, cls, items) ==
    IF ls = <<>> THEN items
    ELSE IF BulletMatch(Head(ls), cls) > 0
    THEN MergeRuns(Tail(ls), cls, Append(items, BulletSub(Head(ls), cls)))
    ELSE IF items = <<>> THEN MergeRuns(Tail(ls), cls, items)
    ELSE MergeRuns(Tail(ls), cls,
                   [items EXCEPT ![Len(items)] = @ \o <<" ">> \o Head(ls)])

\* C11: the HTML parser's items are the runs of the block's non-blank
\* lines that open at each line starting with an en dash, em dash, ASCII
\* hyphen or bullet and whitespace; there is one item for each such line.
C11_DashFamilyMerge ==
    (pkind = "block" /\ ppc \in {"html", "out"}) =>
        /\ pres.hitems = MergeRuns(NonBlank(pdoc), DashFamily, <<>>)
        /\ Len(pres.hitems) =
              Len(SelectSeq(NonBlank(pdoc), LAMBDA l : BulletMatch(l, DashFamily) > 0))

\* C12: on every block both parsers build the same items, and the two
\* filters keep the same items.
C12_SameItemsAndFilter ==
    (pkind = "block" /\ ppc = "out") =>
        /\ pres.hitems = pres.pitems
        /\ pres.hqs = pres.pqs

====
